---------------------------- MODULE Spec2Model ----------------------------
(***************************************************************************)
(* Model of src/mlb_blowout.py: the blowout evaluator                      *)
(* (BlowoutChecker.is_blowout), the poll cycle (check_blowouts with        *)
(* update_supabase and the two fetches) and the scheduled run loop (run,   *)
(* _handle_exit).                                                          *)
(*                                                                         *)
(* JSON values are tagged records, so that the dynamic typing the code     *)
(* relies on (dict.get on something that is not a dict, int + None) is     *)
(* visible:                                                                *)
(*   runs value    [t : absent | int | null | str, n]                      *)
(*   team entry    [t : absent | dict | null, runs]                        *)
(*   inning entry  [t : dict | null, home, away]                           *)
(*   innings value [t : absent | list | null | str | int | dict, items]    *)
(*   linescore     [t : absent | dict | null, innings]                     *)
(* "absent" is a missing key; "null" is JSON null (Python None); "str" is  *)
(* a non-empty string, "int" (as an innings value) a non-zero number and   *)
(* "dict" (as an innings value) a non-empty object.                        *)
(***************************************************************************)
EXTENDS Integers, Sequences, FiniteSets, TLC

VARIABLES
    game,       \* the game dict handed to is_blowout (its "linescore" key)
    res,        \* what the last is_blowout call produced
    phase,      \* "feed": the feed is still being written; "called": is_blowout ran
    running,    \* self.running
    pc,         \* where run() stands
    cpc,        \* where check_blowouts stands ("idle": no poll cycle in flight)
    sched,      \* the API's games of the date (schedule endpoint)
    feed,       \* the API's answer of the game-detail endpoint, per gamePk
    games,      \* check_blowouts' local list of games
    idx,        \* index of the game the for loop is at
    det,        \* detailed_data of the current game
    calls,      \* what the current iteration has called so far, in order
    table,      \* the rows of the table mlb_blowouts
    upserted,   \* indices of the games update_supabase was called for in this cycle
    lostFetch,  \* a fetch failed in this cycle
    lostWrite,  \* an upsert failed in this cycle
    streak,     \* cycles ended in a row on unchanged API data, no fetch failing (0, 1, 2)
    same,       \* as streak, counting only cycles in which no upsert failed either
    snap        \* the table when the last cycle ended

evars == <<game, res, phase>>

pvars == <<running, pc, cpc, sched, feed, games, idx, det, calls, table,
           upserted, lostFetch, lostWrite, streak, same, snap>>

vars == <<game, res, phase, running, pc, cpc, sched, feed, games, idx, det, calls,
          table, upserted, lostFetch, lostWrite, streak, same, snap>>

-----------------------------------------------------------------------------
(* Bounds of the model *)

MaxInnings == 8
MaxBad == 1
MaxGames == 2

-----------------------------------------------------------------------------
(* Program constants *)

RUN_THRESHOLD == 5
THROUGH == 6

-----------------------------------------------------------------------------
(* JSON values *)

Absent == [t |-> "absent", n |-> 0]
Null == [t |-> "null", n |-> 0]
Str == [t |-> "str", n |-> 0]
Num(k) == [t |-> "int", n |-> k]

NoTeam == [t |-> "absent", runs |-> Absent]
NullTeam == [t |-> "null", runs |-> Absent]
Team(r) == [t |-> "dict", runs |-> r]

Inning(h, a) == [t |-> "dict", home |-> h, away |-> a]
NullInning == [t |-> "null", home |-> NoTeam, away |-> NoTeam]
Line(h, a) == Inning(Team(Num(h)), Team(Num(a)))

InningsList(s) == [t |-> "list", items |-> s]
InningsOther(ty) == [t |-> ty, items |-> <<>>]

Linescore(inn) == [t |-> "dict", innings |-> inn]
LinescoreOther(ty) == [t |-> ty, innings |-> InningsOther("absent")]

Game(ls) == [linescore |-> ls]

-----------------------------------------------------------------------------
(* Results of a call: a normal return, or an exception leaving the call *)

EmptyAnalysis ==
    [empty |-> TRUE, through_6_home |-> 0, through_6_away |-> 0,
     through_6_lead |-> 0, maintained_lead |-> FALSE]

Returned(flag, analysis) == [exc |-> "none", flag |-> flag, analysis |-> analysis]
Raised(e) == [exc |-> e, flag |-> FALSE, analysis |-> EmptyAnalysis]
NotCalled == [exc |-> "not_called", flag |-> FALSE, analysis |-> EmptyAnalysis]

Abs(x) == IF x < 0 THEN -x ELSE x
Min(a, b) == IF a < b THEN a ELSE b

-----------------------------------------------------------------------------
(* is_blowout *)

\* Mutant of ReadRuns: .get("runs") with no default, so a missing key reads None.
ReadRuns_NoDefault(i, side) ==
    IF i.t # "dict" THEN [exc |-> "AttributeError", val |-> Absent]
    ELSE LET team == IF side = "home" THEN i.home ELSE i.away IN
         IF team.t = "absent" THEN [exc |-> "none", val |-> Null]
         ELSE IF team.t # "dict" THEN [exc |-> "AttributeError", val |-> Absent]
         ELSE IF team.runs.t = "absent" THEN [exc |-> "none", val |-> Null]
         ELSE [exc |-> "none", val |-> team.runs]

\* i.get(side, {}).get("runs", 0): the value read, or the exception raised.
ReadRuns(i, side) ==
    IF i.t # "dict" THEN [exc |-> "AttributeError", val |-> Absent]
    ELSE LET team == IF side = "home" THEN i.home ELSE i.away IN
         IF team.t = "absent" THEN [exc |-> "none", val |-> Num(0)]
         ELSE IF team.t # "dict" THEN [exc |-> "AttributeError", val |-> Absent]
         ELSE IF team.runs.t = "absent" THEN [exc |-> "none", val |-> Num(0)]
         ELSE [exc |-> "none", val |-> team.runs]

\* acc + v: int + int, or TypeError for None and str.
Plus(acc, r) ==
    IF r.exc # "none" THEN [exc |-> r.exc, v |-> 0]
    ELSE IF r.val.t # "int" THEN [exc |-> "TypeError", v |-> 0]
    ELSE [exc |-> "none", v |-> acc + r.val.n]

\* sum(i.get(side, {}).get("runs", 0) for i in items), left to right.
RECURSIVE SumRuns(_, _, _)
SumRuns(items, side, acc) ==
    IF items = <<>> THEN [exc |-> "none", v |-> acc]
    ELSE LET s == Plus(acc, ReadRuns(Head(items), side)) IN
         IF s.exc # "none" THEN s ELSE SumRuns(Tail(items), side, s.v)

\* Mutant of FirstSix: the slice taken one inning too far, innings[:7].
FirstSix_OneMore(items) == SubSeq(items, 1, Min(THROUGH + 1, Len(items)))

\* innings[:6] and innings[6:]
FirstSix(items) == SubSeq(items, 1, Min(THROUGH, Len(items)))
AfterSix(items) == SubSeq(items, THROUGH + 1, Len(items))

\* Mutant of BelowThreshold: <= for <.
BelowThreshold_Inclusive(h, a) == Abs(h - a) <= RUN_THRESHOLD

BelowThreshold(h, a) == Abs(h - a) < RUN_THRESHOLD

\* Mutant of Analysis: "maintained_lead" starts out False.
Analysis_NotKept(h, a, kept) ==
    [empty |-> FALSE, through_6_home |-> h, through_6_away |-> a,
     through_6_lead |-> Abs(h - a), maintained_lead |-> FALSE]

Analysis(h, a, kept) ==
    [empty |-> FALSE, through_6_home |-> h, through_6_away |-> a,
     through_6_lead |-> Abs(h - a), maintained_lead |-> kept]

\* Mutant of ScanLater: no early return; only the lead after the last inning decides.
RECURSIVE ScanLater_ToEnd(_, _, _, _)
ScanLater_ToEnd(rest, cum_home, cum_away, analysis) ==
    IF rest = <<>>
    THEN IF Abs(cum_home - cum_away) < RUN_THRESHOLD
         THEN Returned(FALSE, [analysis EXCEPT !.maintained_lead = FALSE])
         ELSE Returned(TRUE, analysis)
    ELSE LET h == Plus(cum_home, ReadRuns(Head(rest), "home")) IN
         IF h.exc # "none" THEN Raised(h.exc)
         ELSE LET a == Plus(cum_away, ReadRuns(Head(rest), "away")) IN
              IF a.exc # "none" THEN Raised(a.exc)
              ELSE ScanLater_ToEnd(Tail(rest), h.v, a.v, analysis)

\* The for loop over innings[6:]; analysis is the dict built before it.
RECURSIVE ScanLater(_, _, _, _)
ScanLater(rest, cum_home, cum_away, analysis) ==
    IF rest = <<>> THEN [exc |-> "none", flag |-> TRUE, analysis |-> analysis]
    ELSE LET h == Plus(cum_home, ReadRuns(Head(rest), "home")) IN
         IF h.exc # "none" THEN Raised(h.exc)
         ELSE LET a == Plus(cum_away, ReadRuns(Head(rest), "away")) IN
              IF a.exc # "none" THEN Raised(a.exc)
              ELSE IF BelowThreshold(h.v, a.v)
                   THEN Returned(FALSE, [analysis EXCEPT !.maintained_lead = FALSE])
                   ELSE ScanLater(Tail(rest), h.v, a.v, analysis)

\* The body of the try block, lines 114-144: a return or a raise.
TryBody(g) ==
    LET linescore == IF g.linescore.t = "absent" THEN Linescore(InningsOther("absent"))
                     ELSE g.linescore
    IN
    IF linescore.t # "dict" THEN Raised("AttributeError")
    ELSE LET innings == IF linescore.innings.t = "absent" THEN InningsList(<<>>)
                        ELSE linescore.innings
         IN
         IF innings.t = "null" \/ (innings.t = "list" /\ innings.items = <<>>)
         THEN Returned(FALSE, EmptyAnalysis)
         ELSE IF innings.t = "int" THEN Raised("TypeError")
         ELSE IF innings.t = "dict" THEN Raised("KeyError")
         ELSE IF innings.t = "str" THEN Raised("AttributeError")
         ELSE LET h == SumRuns(FirstSix(innings.items), "home", 0) IN
              IF h.exc # "none" THEN Raised(h.exc)
              ELSE LET a == SumRuns(FirstSix(innings.items), "away", 0) IN
                   IF a.exc # "none" THEN Raised(a.exc)
                   ELSE IF BelowThreshold(h.v, a.v)
                        THEN Returned(FALSE, Analysis(h.v, a.v, TRUE))
                        ELSE ScanLater(AfterSix(innings.items), h.v, a.v,
                                       Analysis(h.v, a.v, TRUE))

\* except (KeyError, TypeError): return False, {}
Caught(e) == e \in {"KeyError", "TypeError"}

IsBlowout(g) ==
    LET r == TryBody(g) IN
    IF r.exc = "none" THEN r
    ELSE IF Caught(r.exc) THEN Returned(FALSE, EmptyAnalysis)
    ELSE r

-----------------------------------------------------------------------------
(* The evaluator applied to the live feed.  The feed's linescore grows one *)
(* inning at a time, and is_blowout can be applied to any prefix.          *)
(* SpecEval feeds inning lines of non-negative integers only; SpecFeed     *)
(* also feeds entries with missing or wrong-typed fields, at most MaxBad   *)
(* of them per game, and linescores that are not a list of innings.        *)

GoodLines == {Line(0, 0), Line(5, 0), Line(0, 1), Line(0, 5)}

FeedLines == {Line(5, 0), Line(0, 1)}

OddInnings ==
    { Inning(NoTeam, Team(Num(1))),          \* "home" key missing
      Inning(Team(Num(5)), Team(Absent)),    \* "runs" key missing
      Inning(Team(Num(5)), Team(Null)),      \* "runs": null
      Inning(Team(Str), Team(Num(1))),       \* "runs": "x"
      Inning(Team(Num(5)), NullTeam),        \* "away": null
      NullInning }                           \* the inning entry is null

OddGames ==
    { Game(LinescoreOther("absent")), Game(LinescoreOther("null")),
      Game(Linescore(InningsOther("absent"))), Game(Linescore(InningsOther("null"))),
      Game(Linescore(InningsOther("str"))), Game(Linescore(InningsOther("int"))),
      Game(Linescore(InningsOther("dict"))) }

IsList == game.linescore.t = "dict" /\ game.linescore.innings.t = "list"

Items == IF IsList THEN game.linescore.innings.items ELSE <<>>

OddCount == Cardinality({k \in DOMAIN Items : Items[k] \in OddInnings})

\* No poll cycle: the evaluator alone.
NoPoll ==
    /\ running = TRUE
    /\ pc = "none"
    /\ cpc = "idle"
    /\ sched = <<>>
    /\ feed = <<>>
    /\ games = <<>>
    /\ idx = 0
    /\ det = "none"
    /\ calls = <<>>
    /\ table = {}
    /\ upserted = {}
    /\ lostFetch = FALSE
    /\ lostWrite = FALSE
    /\ streak = 0
    /\ same = 0
    /\ snap = {}

EvalInit ==
    /\ game = Game(Linescore(InningsList(<<>>)))
    /\ res = NotCalled
    /\ phase = "feed"
    /\ NoPoll

\* The feed reports one more inning.
InningPlayed ==
    /\ phase = "feed"
    /\ Len(Items) < MaxInnings
    /\ \E l \in GoodLines :
          game' = Game(Linescore(InningsList(Append(Items, l))))
    /\ UNCHANGED <<res, phase>>
    /\ UNCHANGED pvars

FeedInning ==
    /\ phase = "feed"
    /\ IsList
    /\ Len(Items) < MaxInnings
    /\ \E l \in FeedLines \cup OddInnings :
          /\ l \in OddInnings => OddCount < MaxBad
          /\ game' = Game(Linescore(InningsList(Append(Items, l))))
    /\ UNCHANGED <<res, phase>>
    /\ UNCHANGED pvars

\* The feed answers with something that is not a list of innings.
FeedOdd ==
    /\ phase = "feed"
    /\ Items = <<>>
    /\ IsList
    /\ \E g \in OddGames : game' = g
    /\ UNCHANGED <<res, phase>>
    /\ UNCHANGED pvars

\* is_blowout(game)
CallIsBlowout ==
    /\ phase = "feed"
    /\ res' = IsBlowout(game)
    /\ phase' = "called"
    /\ UNCHANGED game
    /\ UNCHANGED pvars

EvalNext == InningPlayed \/ CallIsBlowout

SpecEval == EvalInit /\ [][EvalNext]_vars

FeedNext == FeedInning \/ FeedOdd \/ CallIsBlowout

SpecFeed == EvalInit /\ [][FeedNext]_vars

-----------------------------------------------------------------------------
(* The poll cycle: check_blowouts, the fetches and update_supabase.        *)
(*                                                                         *)
(* A schedule entry is [gamePk, teams, status]: gamePk 0 stands for a      *)
(* missing or falsy identifier; teams is "dict" or "null" (JSON null);     *)
(* status is the codedGameState ("F", or "I" for any other code), or       *)
(* "null" when the status object itself is JSON null.  Team names and      *)
(* scores are copied from the entry into the row unchanged and are left    *)
(* out of the rows, as is updated_at.                                      *)

Date == "2025-06-01"

GamePks == {1, 2}

Entry(pk, teams, status) == [gamePk |-> pk, teams |-> teams, status |-> status]

Entries ==
    { Entry(1, "dict", "F"), Entry(2, "dict", "F"),
      Entry(1, "dict", "I"), Entry(2, "dict", "I"),
      Entry(0, "dict", "F"),
      Entry(1, "null", "I"),
      Entry(2, "dict", "null") }

\* Answers of the game-detail endpoint: "empty" is {} (falsy), "nolive" has
\* "liveData": null, the others carry liveData.linescore.
WonBig == Linescore(InningsList(<<Line(5, 0)>>))
Close == Linescore(InningsList(<<Line(0, 1)>>))
LostLead ==
    Linescore(InningsList(<<Line(5, 0), Line(0, 0), Line(0, 0), Line(0, 0),
                            Line(0, 0), Line(0, 0), Line(0, 1)>>))
NoInnings == Linescore(InningsList(<<>>))
NullLinescore == LinescoreOther("null")

Detail(kind, ls) == [kind |-> kind, linescore |-> ls]

Details ==
    { Detail("ok", WonBig), Detail("ok", Close), Detail("ok", LostLead),
      Detail("ok", NoInnings), Detail("ok", NullLinescore),
      Detail("nolive", NoInnings), Detail("empty", NoInnings) }

\* The detail of gamePk pk can be asked for: an entry of the schedule names it.
Asked(s, pk) == \E i \in DOMAIN s : s[i].gamePk = pk /\ s[i].teams = "dict"

NoDetail == Detail("none", NoInnings)

Bool(b) == [t |-> "bool", n |-> IF b THEN 1 ELSE 0]

\* The game_data dict of a game that has not finished, lines 186-196.
InProgressData(e) ==
    [game_pk |-> e.gamePk, date |-> Date, status |-> "In Progress",
     is_blowout |-> FALSE, analysis |-> EmptyAnalysis]

\* The game_data dict of a finished game, lines 211-221.
FinalData(e, r) ==
    [game_pk |-> e.gamePk, date |-> Date, status |-> "Final",
     is_blowout |-> r.flag, analysis |-> r.analysis]

\* The row update_supabase builds, lines 59-71.
RowOf(gd) ==
    [game_id |-> gd.game_pk, date |-> gd.date, is_blowout |-> gd.is_blowout,
     through_6_lead |-> IF gd.analysis.empty THEN Null
                        ELSE Num(gd.analysis.through_6_lead),
     maintained_lead |-> IF gd.analysis.empty THEN Null
                         ELSE Bool(gd.analysis.maintained_lead),
     status |-> gd.status]

\* Mutant of Upsert: a plain insert.
Upsert_Insert(rows, d) == rows \cup {d}

\* table('mlb_blowouts').upsert(data): insert, or replace the row of that game_id.
Upsert(rows, d) == {r \in rows : r.game_id # d.game_id} \cup {d}

\* update_supabase(game_data): the upsert is applied, or it fails and the
\* failure is logged (lines 76-82); no exception leaves the call.
UpdateSupabase(gd, ok) ==
    /\ table' = IF ok THEN Upsert(table, RowOf(gd)) ELSE table
    /\ lostWrite' = (lostWrite \/ ~ok)
    /\ calls' = Append(calls, IF ok THEN "upsert" ELSE "upsert_failed")

\* Bookkeeping when a cycle ends (by return or by an exception): streak counts,
\* up to 2, the cycles that ended in a row on unchanged API data with every
\* fetch answered, and same those of them in which every upsert was applied.
CycleEnds(noFetch, noWrite) ==
    /\ snap' = table
    /\ streak' = IF noFetch THEN 0 ELSE IF streak >= 1 THEN 2 ELSE 1
    /\ same' = IF noFetch \/ noWrite THEN 0 ELSE IF same >= 1 THEN 2 ELSE 1
    /\ lostFetch' = FALSE
    /\ lostWrite' = FALSE

\* check_blowouts returns to run().
ReturnTo(p) ==
    CASE p = "date_cycle" -> "exited"
      [] p = "startup_cycle" -> "loop_test"
      [] p = "pending_cycle" -> "sleep"

\* The locals of check_blowouts are gone when it is left.
LocalsGone ==
    /\ games' = <<>>
    /\ idx' = 0
    /\ det' = NoDetail
    /\ game' = Game(NoInnings)
    /\ res' = NotCalled

\* An exception leaves check_blowouts, and with it run(): the process ends.
Escapes ==
    /\ pc' = "crashed"
    /\ cpc' = "idle"
    /\ CycleEnds(lostFetch, lostWrite)
    /\ LocalsGone
    /\ UNCHANGED <<phase, running, sched, feed, table, upserted>>

\* Lines 154-170.
FetchSchedule ==
    /\ cpc = "fetch_schedule"
    /\ \E ok \in BOOLEAN :
          IF ok /\ sched # <<>>
          THEN /\ games' = sched
               /\ idx' = 1
               /\ cpc' = "loop"
               /\ UNCHANGED <<pc, lostFetch, lostWrite, streak, same, snap>>
          ELSE /\ cpc' = "idle"
               /\ pc' = ReturnTo(pc)
               /\ CycleEnds(lostFetch \/ ~ok, lostWrite)
               /\ UNCHANGED <<games, idx>>
    /\ upserted' = {}
    /\ calls' = <<>>
    /\ UNCHANGED <<game, res, phase, running, sched, feed, det, table>>

AtGame == cpc = "loop" /\ idx <= Len(games)

\* continue, or the end of the loop body: the next game.
NextGame ==
    /\ idx' = idx + 1
    /\ cpc' = "loop"
    /\ det' = NoDetail
    /\ game' = Game(NoInnings)
    /\ res' = NotCalled

\* Lines 173-175: no identifier, continue.
SkipNoId ==
    /\ AtGame
    /\ games[idx].gamePk = 0
    /\ NextGame
    /\ calls' = <<>>
    /\ UNCHANGED <<phase, running, pc, sched, feed, games, table, upserted,
                   lostFetch, lostWrite, streak, same, snap>>

\* Lines 178-184: .get on "teams": null or on "status": null.
HeadRaises ==
    /\ AtGame
    /\ games[idx].gamePk # 0
    /\ games[idx].teams = "null" \/ games[idx].status = "null"
    /\ Escapes
    /\ calls' = <<"AttributeError">>

HeadOk ==
    /\ AtGame
    /\ games[idx].gamePk # 0
    /\ games[idx].teams # "null"
    /\ games[idx].status # "null"

\* Lines 185-198: the game has not finished.
PersistInProgress ==
    /\ HeadOk
    /\ games[idx].status # "F"
    /\ \E ok \in BOOLEAN : UpdateSupabase(InProgressData(games[idx]), ok)
    /\ upserted' = upserted \cup {idx}
    /\ NextGame
    /\ UNCHANGED <<phase, running, pc, sched, feed, games, lostFetch, streak, same,
                   snap>>

\* Lines 200-203: fetch_game_data; a failed fetch or an empty answer: continue.
FetchDetail ==
    /\ HeadOk
    /\ games[idx].status = "F"
    /\ \E ok \in BOOLEAN :
          IF ok /\ feed[games[idx].gamePk].kind # "empty"
          THEN /\ det' = feed[games[idx].gamePk]
               /\ cpc' = "evaluate"
               /\ UNCHANGED <<game, res, idx, lostFetch>>
          ELSE /\ NextGame
               /\ lostFetch' = (lostFetch \/ ~ok)
    /\ calls' = <<"fetch">>
    /\ UNCHANGED <<phase, running, pc, sched, feed, games, table, upserted, lostWrite,
                   streak, same, snap>>

\* Line 206 with "liveData": null, or an exception leaving is_blowout at line 209.
EvaluateRaises ==
    /\ cpc = "evaluate"
    /\ \/ det.kind = "nolive"
       \/ det.kind = "ok" /\ IsBlowout(Game(det.linescore)).exc # "none"
    /\ Escapes
    /\ calls' = Append(calls, "AttributeError")

\* Lines 206-209.
Evaluate ==
    /\ cpc = "evaluate"
    /\ det.kind = "ok"
    /\ IsBlowout(Game(det.linescore)).exc = "none"
    /\ game' = Game(det.linescore)
    /\ res' = IsBlowout(Game(det.linescore))
    /\ cpc' = "persist"
    /\ calls' = Append(calls, "eval")
    /\ UNCHANGED <<phase, running, pc, sched, feed, games, idx, det, table,
                   upserted, lostFetch, lostWrite, streak, same, snap>>

\* Lines 211-225.
PersistFinal ==
    /\ cpc = "persist"
    /\ \E ok \in BOOLEAN : UpdateSupabase(FinalData(games[idx], res), ok)
    /\ upserted' = upserted \cup {idx}
    /\ NextGame
    /\ UNCHANGED <<phase, running, pc, sched, feed, games, lostFetch, streak, same,
                   snap>>

\* Lines 227-239: the loop is over, the table is printed, check_blowouts returns.
Display ==
    /\ cpc = "loop"
    /\ idx > Len(games)
    /\ cpc' = "idle"
    /\ pc' = ReturnTo(pc)
    /\ CycleEnds(lostFetch, lostWrite)
    /\ calls' = <<>>
    /\ LocalsGone
    /\ UNCHANGED <<phase, running, sched, feed, table, upserted>>

CycleStep ==
    \/ FetchSchedule
    \/ SkipNoId
    \/ HeadRaises
    \/ PersistInProgress
    \/ FetchDetail
    \/ EvaluateRaises
    \/ Evaluate
    \/ PersistFinal
    \/ Display

\* A game of the schedule finishes: the API now reports it final.  The
\* schedule is read once per cycle (line 154), so the change is placed between
\* two cycles.
GameEnds ==
    /\ cpc = "idle"
    /\ \E i \in DOMAIN sched :
          /\ sched[i].status = "I"
          /\ sched' = [sched EXCEPT ![i].status = "F"]
    /\ streak' = 0
    /\ same' = 0
    /\ UNCHANGED <<game, res, phase, running, pc, cpc, feed, games, idx, det, calls,
                   table, upserted, lostFetch, lostWrite, snap>>

\* check_blowouts is called.
Enter(p) ==
    /\ pc' = p
    /\ cpc' = "fetch_schedule"
    /\ UNCHANGED <<game, res, phase, running, sched, feed, games, idx, det, calls,
                   table, upserted, lostFetch, lostWrite, streak, same, snap>>

PollInit(p) ==
    /\ game = Game(NoInnings)
    /\ res = NotCalled
    /\ phase = "poll"
    /\ running = TRUE
    /\ pc = p
    /\ cpc = "idle"
    /\ sched \in UNION {[1..n -> Entries] : n \in 0..MaxGames}
    /\ feed \in [GamePks -> Details]
    /\ \A pk \in GamePks : Asked(sched, pk) \/ feed[pk] = Detail("empty", NoInnings)
    /\ games = <<>>
    /\ idx = 0
    /\ det = NoDetail
    /\ calls = <<>>
    /\ table = {}
    /\ upserted = {}
    /\ lostFetch = FALSE
    /\ lostWrite = FALSE
    /\ streak = 0
    /\ same = 0
    /\ snap = {}

-----------------------------------------------------------------------------
(* run(date) with a date: one poll cycle, then the process ends.  The      *)
(* command can be run again; the table stays.                              *)

\* Line 244.
RunDate ==
    /\ pc = "run_date"
    /\ Enter("date_cycle")

\* Lines 258-264 again: a new process on the same table.
Restart ==
    /\ pc \in {"exited", "crashed"}
    /\ pc' = "run_date"
    /\ running' = TRUE
    /\ UNCHANGED <<game, res, phase, cpc, sched, feed, games, idx, det, calls, table,
                   upserted, lostFetch, lostWrite, streak, same, snap>>

PollNext == RunDate \/ CycleStep \/ GameEnds \/ Restart

SpecPoll == PollInit("run_date") /\ [][PollNext]_vars

-----------------------------------------------------------------------------
(* run() without a date: one poll cycle at once, then the scheduler loop   *)
(* of lines 254-256.  A signal runs _handle_exit between two steps of the  *)
(* main thread; a blocking call it arrives in is resumed afterwards.       *)

RunEntries ==
    {Entry(1, "dict", "F"), Entry(2, "dict", "I"), Entry(2, "dict", "null"),
     Entry(0, "dict", "F")}

RunDetails == {Detail("ok", WonBig), Detail("ok", NullLinescore)}

RunInit ==
    /\ PollInit("startup")
    /\ \A i \in DOMAIN sched : sched[i] \in RunEntries
    /\ \A pk \in GamePks : Asked(sched, pk) => feed[pk] \in RunDetails

\* Line 251.
Startup ==
    /\ pc = "startup"
    /\ Enter("startup_cycle")

\* Mutant of LoopTest: while True, the flag is never read.
LoopTest_Forever ==
    /\ pc = "loop_test"
    /\ pc' = "run_pending"
    /\ UNCHANGED <<game, res, phase, running, cpc, sched, feed, games, idx, det, calls,
                   table, upserted, lostFetch, lostWrite, streak, same, snap>>

\* Line 254: while self.running.
LoopTest ==
    /\ pc = "loop_test"
    /\ pc' = IF running THEN "run_pending" ELSE "exited"
    /\ UNCHANGED <<game, res, phase, running, cpc, sched, feed, games, idx, det, calls,
                   table, upserted, lostFetch, lostWrite, streak, same, snap>>

\* Line 255: schedule.run_pending() runs check_blowouts when the job is due.
RunPending ==
    /\ pc = "run_pending"
    /\ \/ Enter("pending_cycle")
       \/ /\ pc' = "sleep"
          /\ UNCHANGED <<game, res, phase, running, cpc, sched, feed, games, idx, det,
                         calls, table, upserted, lostFetch, lostWrite, streak, same, snap>>

\* Line 256: time.sleep(1).
Sleep ==
    /\ pc = "sleep"
    /\ pc' = "loop_test"
    /\ UNCHANGED <<game, res, phase, running, cpc, sched, feed, games, idx, det, calls,
                   table, upserted, lostFetch, lostWrite, streak, same, snap>>

\* Lines 51-53, on SIGINT or SIGTERM while the process lives.
HandleExit ==
    /\ pc \notin {"exited", "crashed"}
    /\ running' = FALSE
    /\ UNCHANGED <<game, res, phase, pc, cpc, sched, feed, games, idx, det, calls,
                   table, upserted, lostFetch, lostWrite, streak, same, snap>>

RunNext ==
    \/ Startup
    \/ LoopTest
    \/ RunPending
    \/ Sleep
    \/ HandleExit
    \/ CycleStep

SpecRun == RunInit /\ [][RunNext]_vars

\* The single thread of run() goes on whenever it can: every call it makes
\* returns (the requests calls time out after 10 s, the sleep after 1 s).
ThreadStep == Startup \/ LoopTest \/ RunPending \/ Sleep \/ CycleStep

SpecRunFair == SpecRun /\ WF_vars(ThreadStep)

-----------------------------------------------------------------------------
(* The rule as the specification states it, on the numbers of the inning   *)
(* lines: a run field that is missing counts as 0.                         *)

FieldIsNumber(i, side) ==
    /\ i.t = "dict"
    /\ LET team == IF side = "home" THEN i.home ELSE i.away IN
       \/ team.t = "absent"
       \/ team.t = "dict" /\ team.runs.t \in {"absent", "int"}

LineIsNumbers(i) == FieldIsNumber(i, "home") /\ FieldIsNumber(i, "away")

RunsIn(i, side) ==
    IF i.t # "dict" THEN 0
    ELSE LET team == IF side = "home" THEN i.home ELSE i.away IN
         IF team.t = "dict" /\ team.runs.t = "int" THEN team.runs.n ELSE 0

RECURSIVE TotalAfter(_, _, _)
TotalAfter(items, side, k) ==
    IF k = 0 THEN 0 ELSE TotalAfter(items, side, k - 1) + RunsIn(items[k], side)

LeadAfter(items, k) ==
    LET d == TotalAfter(items, "home", k) - TotalAfter(items, "away", k) IN
    IF d < 0 THEN -d ELSE d

UpToSix(items) == IF Len(items) < 6 THEN Len(items) ELSE 6

AllNumbers(items, k) == \A j \in 1..k : LineIsNumbers(items[j])

\* The first inning after the 6th at whose end the lead is below 5 (0: none).
FirstDrop(items) ==
    IF \E k \in 7..Len(items) : LeadAfter(items, k) < 5
    THEN CHOOSE k \in 7..Len(items) :
            /\ LeadAfter(items, k) < 5
            /\ \A j \in 7..(k - 1) : LeadAfter(items, j) >= 5
    ELSE 0

ThroughSixAnalysis(items, kept) ==
    [empty |-> FALSE,
     through_6_home |-> TotalAfter(items, "home", UpToSix(items)),
     through_6_away |-> TotalAfter(items, "away", UpToSix(items)),
     through_6_lead |-> LeadAfter(items, UpToSix(items)),
     maintained_lead |-> kept]

-----------------------------------------------------------------------------
(* C1: for a non-empty sequence of inning lines of non-negative integers,  *)
(* is_blowout returns true exactly when the lead after the first           *)
(* min(6, length) innings is at least 5 and the lead after every inning    *)
(* from the 7th on is at least 5; for the empty sequence it returns        *)
(* (false, empty analysis).                                                *)
C1_BlowoutIff ==
    phase = "called" =>
        /\ res.exc = "none"
        /\ Items = <<>> => res = Returned(FALSE, EmptyAnalysis)
        /\ Items # <<>> =>
              (res.flag <=> /\ LeadAfter(Items, UpToSix(Items)) >= 5
                            /\ \A k \in 7..Len(Items) : LeadAfter(Items, k) >= 5)

C1_Witness ==
    /\ phase = "called"
    /\ Len(Items) >= 8
    /\ res.flag
    /\ TotalAfter(Items, "away", Len(Items)) > TotalAfter(Items, "home", Len(Items))
    /\ LeadAfter(Items, 8) > LeadAfter(Items, 6)

(* C2, as stated: for every inning sequence whose lead through inning 6   *)
(* is below 5, is_blowout returns (false, analysis with maintained_lead =  *)
(* true).  The empty sequence has lead 0 and gets the empty analysis.      *)
C2_Original ==
    (phase = "called" /\ IsList /\ AllNumbers(Items, UpToSix(Items))
        /\ LeadAfter(Items, UpToSix(Items)) < 5) =>
        /\ res.exc = "none"
        /\ ~res.flag
        /\ ~res.analysis.empty
        /\ res.analysis.maintained_lead

(* C2, amended: for every non-empty inning sequence whose lead through     *)
(* inning 6 is below 5, is_blowout returns false and the analysis of the   *)
(* first six innings with maintained_lead = true, whatever the later       *)
(* innings hold: they are not read.                                        *)
C2_BelowThroughSix ==
    (phase = "called" /\ IsList /\ Items # <<>> /\ AllNumbers(Items, UpToSix(Items))
        /\ LeadAfter(Items, UpToSix(Items)) < 5) =>
        res = Returned(FALSE, ThroughSixAnalysis(Items, TRUE))

C2_Witness ==
    /\ phase = "called"
    /\ Len(Items) >= 7
    /\ AllNumbers(Items, 6)
    /\ LeadAfter(Items, 6) < 5
    /\ Items[7] = NullInning
    /\ res = Returned(FALSE, ThroughSixAnalysis(Items, TRUE))

(* C3: when the lead through inning 6 is at least 5 and the lead after     *)
(* some later inning is below 5, is_blowout returns false with             *)
(* maintained_lead = false and the through-6 values, decided at the first  *)
(* such inning k: what follows inning k does not change the result, even   *)
(* when the lead climbs back to 5 or more.                                 *)
C3_StopsAtFirstDrop ==
    (phase = "called" /\ Len(Items) > 6 /\ LeadAfter(Items, 6) >= 5
        /\ FirstDrop(Items) # 0) =>
        /\ res = Returned(FALSE, ThroughSixAnalysis(Items, FALSE))
        /\ res = IsBlowout(Game(Linescore(InningsList(
                     SubSeq(Items, 1, FirstDrop(Items))))))

C3_Witness ==
    /\ phase = "called"
    /\ Len(Items) = 8
    /\ LeadAfter(Items, 6) >= 5
    /\ FirstDrop(Items) = 7
    /\ LeadAfter(Items, 8) >= 5
    /\ ~res.flag
    /\ ~res.analysis.maintained_lead

(* C4: no exception leaves is_blowout: every structural error in its input *)
(* ends in the return of (false, empty analysis).                          *)
C4_NothingEscapes ==
    phase = "called" => res.exc = "none"

\* A missing run field written out as 0 (and nothing else changed).
ZeroTeam(team) ==
    IF team.t = "absent" THEN Team(Num(0))
    ELSE IF team.t = "dict" /\ team.runs.t = "absent" THEN Team(Num(0))
    ELSE team

ZeroMissing(i) ==
    IF i.t = "dict" THEN Inning(ZeroTeam(i.home), ZeroTeam(i.away)) ELSE i

\* A missing run field and a run value that is not a number written out as 0.
ZeroTeamAll(team) ==
    IF team.t = "dict" /\ team.runs.t \in {"null", "str"} THEN Team(Num(0))
    ELSE ZeroTeam(team)

ZeroMalformed(i) ==
    IF i.t = "dict" THEN Inning(ZeroTeamAll(i.home), ZeroTeamAll(i.away)) ELSE i

GameOf(items) == Game(Linescore(InningsList(items)))

(* C5, as stated: a run field that is missing or whose value is not a      *)
(* number counts as 0: the result is the result on the sequence with that  *)
(* field replaced by 0.                                                    *)
C5_Original ==
    (phase = "called" /\ IsList) =>
        res = IsBlowout(GameOf([k \in DOMAIN Items |-> ZeroMalformed(Items[k])]))

(* C5, amended: a run field that is missing (the home or away entry        *)
(* absent, or its runs key absent) counts as 0: the result is the result   *)
(* on the sequence with that field replaced by 0, in innings 1-6 and in    *)
(* later innings.  A runs value that is present and not a number is not    *)
(* replaced by 0.                                                          *)
C5_MissingIsZero ==
    (phase = "called" /\ IsList) =>
        res = IsBlowout(GameOf([k \in DOMAIN Items |-> ZeroMissing(Items[k])]))

C5_Witness ==
    /\ phase = "called"
    /\ Len(Items) >= 7
    /\ Items[7] = Inning(NoTeam, Team(Num(1)))
    /\ \A k \in 1..6 : Items[k] \in FeedLines
    /\ LeadAfter(Items, 6) >= 5
    /\ LeadAfter(Items, 7) >= 5
    /\ res.flag

-----------------------------------------------------------------------------
(* Claims about the poll cycle and the run loop *)

CycleEnding == cpc # "idle" /\ cpc' = "idle"

(* C6: whatever fails for one game of a poll cycle, the cycle goes on to   *)
(* the games after it and reaches its end: no exception leaves             *)
(* check_blowouts.                                                         *)
C6_CycleNeverRaises == pc # "crashed"

(* C7: in a poll cycle, every game of the schedule that has an identifier  *)
(* and a coded status other than 'F' gets its In Progress summary          *)
(* persisted (update_supabase is called for it) by the time the cycle      *)
(* ends.                                                                   *)
C7_NonFinalPersisted ==
    [][CycleEnding =>
          \A i \in DOMAIN games :
             (games[i].gamePk # 0 /\ games[i].teams = "dict" /\ games[i].status = "I")
                => i \in upserted']_vars

\* The part of C7 about one game's iteration: a game that has not finished is
\* handed to update_supabase with no fetch and no evaluation before it, and a
\* finished game is persisted only after its fetch and its evaluation.
C7_Dispatch ==
    /\ cpc = "evaluate" => games[idx].status = "F" /\ calls = <<"fetch">>
    /\ cpc = "persist" => games[idx].status = "F" /\ calls = <<"fetch", "eval">>
    /\ \A r \in table : r.status = "In Progress" =>
          ~r.is_blowout /\ r.through_6_lead = Null /\ r.maintained_lead = Null

(* C8: a signal only sets running to false and leaves a poll cycle in      *)
(* flight where it is; the flag is read at the loop test alone, between    *)
(* two ticks and never inside a cycle; the loop is left only there, with   *)
(* the flag false; once the flag is false no tick begins, so no poll cycle *)
(* starts after the current tick; and the process then ends (the loop is   *)
(* left, unless an exception ended the process before).  The same holds    *)
(* for a signal during the start-up cycle.                                 *)
C8_Cooperative ==
    /\ [][(running /\ ~running') =>
             UNCHANGED <<game, res, phase, pc, cpc, sched, feed, games, idx, det, calls,
                         table, upserted, lostFetch, lostWrite, streak, same, snap>>]_vars
    /\ [][pc' = "exited" /\ pc # "exited" =>
             pc = "loop_test" /\ cpc = "idle" /\ ~running]_vars
    /\ [][(pc = "loop_test" /\ ~running) => pc' \in {"loop_test", "exited"}]_vars
    /\ [][(cpc = "idle" /\ cpc' # "idle" /\ ~running) =>
             pc \in {"startup", "run_pending"}]_vars
    /\ [][(cpc # "idle" /\ ~running /\ pc' # pc) =>
             pc' \in {"loop_test", "sleep", "crashed"} /\ cpc' = "idle"]_vars
    /\ (~running ~> pc \in {"exited", "crashed"})

\* The flag went down during the start-up cycle, which is still going on.
C8_Witness ==
    /\ ~running
    /\ pc = "startup_cycle"
    /\ cpc = "persist"
    /\ calls = <<"fetch", "eval">>

\* At most one row per game identifier.
OneRowPerId == \A r1, r2 \in table : r1.game_id = r2.game_id => r1 = r2

\* An upsert that is applied leaves the row it wrote as the only row of its identifier.
WriteWins ==
    /\ (cpc = "persist" /\ calls' = <<"fetch", "eval", "upsert">>) =>
          {r \in table' : r.game_id = games[idx].gamePk}
             = {RowOf(FinalData(games[idx], res))}
    /\ (cpc = "loop" /\ calls' = <<"upsert">>) =>
          {r \in table' : r.game_id = games[idx].gamePk}
             = {RowOf(InProgressData(games[idx]))}

C10_Rows ==
    \A r \in table :
       /\ r.is_blowout =>
             /\ r.status = "Final"
             /\ r.through_6_lead.t = "int"
             /\ r.through_6_lead.n >= 5
             /\ r.maintained_lead = Bool(TRUE)
       /\ r.status = "In Progress" =>
             /\ ~r.is_blowout
             /\ r.through_6_lead = Null
             /\ r.maintained_lead = Null
       /\ ~(r.maintained_lead = Bool(FALSE) /\ r.through_6_lead.t = "int"
              /\ r.through_6_lead.n < 5)

C10_Witness ==
    /\ \E r \in table : r.is_blowout
    /\ \E r \in table : r.status = "Final" /\ r.maintained_lead = Bool(FALSE)
    /\ cpc = "idle"

=============================================================================
